---- MODULE Spec2Model ----
(***************************************************************************)
(* Scan2Target: job orchestration and delivery.                            *)
(*                                                                         *)
(* The model follows three threads of control of the application:          *)
(*   - the event loop, which runs the routes (start_scan, cancel_job) and  *)
(*     the BackgroundWorker tasks (_execute_task);                         *)
(*   - one thread-pool thread per job, which runs                          *)
(*     ScannerManager._execute_scan (submitted by run_in_executor);        *)
(*   - TargetManager.deliver, called from _execute_scan.                   *)
(* Code that runs on the event loop without awaiting is atomic with        *)
(* respect to other event-loop code; it interleaves with the thread-pool   *)
(* threads at every access of the job store (get_job / update_job are      *)
(* separate SQLite transactions).                                          *)
(*                                                                         *)
(* Not modelled: deletion of job rows (delete_job, clear_completed_jobs),  *)
(* so every `if job:` after creation takes its true branch; the content   *)
(* of thumbnails (only whether thumbnail_file was assigned); failures of   *)
(* the job store and of the file system; check_scanner_now, the on-demand  *)
(* probe of the health monitor.                                            *)
(***************************************************************************)
EXTENDS Integers, Sequences, FiniteSets, TLC

\* ------------------------------------------------------------------ bounds

\* Job ids the store and the handle map are indexed by (uuid4 per
\* start_scan: ids never repeat).
JobIds == {"j1", "j2"}

\* The ids start_scan is called with.  One job is followed through every
\* step of its worker task and scan thread; the other id is never created,
\* so that requests can name a job that does not exist.  Jobs share no
\* state but the store and the handle map, both keyed by job id.
ScanJobs == {"j1"}

\* Largest max_retries argument tried for deliver.
MaxRetries == 4

\* Number of cancel_job calls (both routes together) the model issues.
MaxCancels == 2

\* deliver's default max_retries, the value every caller in the code uses.
DefaultMaxRetries == 3

\* ------------------------------------------------------------------ values

\* An exception value: str(e) is rendered from these fields.
\*   kind     which raise site produced it
\*   target   target name or id embedded in the text ("" if none)
\*   retries  the attempt count embedded in the text (0 if none)
\*   inner    kind of the wrapped error ("" if none)
\*   cause    text of the underlying error
Err(kind, target, retries, inner, cause) ==
    [kind |-> kind, target |-> target, retries |-> retries,
     inner |-> inner, cause |-> cause]

\* No exception / Python None for last_error.
NoErr == Err("none", "", 0, "", "")

\* A job message: a fixed text followed by str(err).
Msg(text, e) == [text |-> text, err |-> e]

\* message = None
Null == Msg("null", NoErr)

\* file_path = None
NoPath == "null"

\* A row of the jobs table; status "absent" stands for "no such row".
JobRecord(status, file_path, message) ==
    [status |-> status, file_path |-> file_path, message |-> message]

NoJob == JobRecord("absent", NoPath, Null)

\* JobStatus
JobStatus == {"queued", "running", "completed", "failed", "cancelled"}

\* Errors scanimage / the capture loop can end with.
CaptureErrors ==
    {"scanimage failed", "Scan timeout", "Scanner returned empty file",
     "No pages were scanned successfully", "Batch scan failed",
     "No pages were scanned in batch mode",
     "Batch scan timeout after 5 minutes", "OSError"}

\* Errors a protocol handler can raise (two, to tell first from last).
DeliveryErrors == {"e1", "e2"}

\* Target types deliver dispatches on.
SupportedTypes == {"SMB", "SFTP", "Email", "Paperless-ngx", "Webhook",
                   "Google Drive", "Dropbox", "OneDrive", "Nextcloud"}

\* TargetConfig rows repo.get may return; present = FALSE stands for None.
Target(present, name, type, enabled) ==
    [present |-> present, name |-> name, type |-> type, enabled |-> enabled]

NoTarget == Target(FALSE, "", "none", FALSE)

TargetRows == {NoTarget,
               Target(TRUE, "nas", "SMB", TRUE),
               Target(TRUE, "nas", "SMB", FALSE),
               Target(TRUE, "ftp", "FTP", TRUE)}

\* The settings of a profile the capture stage branches on.
Profile(batch, src) == [batch_scan |-> batch, source |-> src]

\* list_profiles: the one batch profile reads from the feeder, the others
\* are single-page flatbed profiles (an unknown profile_id falls back to
\* one of those).
BuiltinProfiles == {Profile(FALSE, "Flatbed"), Profile(TRUE, "ADF")}

\* Every combination of the two settings a profile dictionary can hold.
AllProfiles == {Profile(b, s) : b \in BOOLEAN, s \in {"Flatbed", "ADF"}}

\* "Safety limit for batch scanning": if page_num > 100: break
PageLimit == 100

\* Largest number of page files a native --batch run leaves behind.
MaxBatchPages == 3

\* adf_empty_indicators
adf_empty_indicators ==
    {"out of documents", "no documents", "document feeder is empty",
     "adf empty", "no more pages", "end of document",
     "error during device i/o", "device i/o error"}

\* What scanimage writes to stderr when it exits non-zero (lower-cased);
\* a message is taken to contain an indicator iff it is one.
StderrMessages == {"out of documents", "device busy"}

\* Every message is taken for an empty feeder.
is_adf_empty_any(msg) == TRUE

\* any(indicator in error_msg.lower() for indicator in adf_empty_indicators)
is_adf_empty(msg) == msg \in adf_empty_indicators

\* The outcome of one subprocess.run of scanimage: it could not be started
\* (OSError), it timed out, or it exited with return code rc, having
\* written n units of output (bytes of the page file for a single page,
\* page files for --batch) and, if rc is not 0, a message to stderr.
RunResult(started, timeout, rc, n, msg) ==
    [started |-> started, timeout |-> timeout, rc |-> rc, out |-> n, msg |-> msg]

NoResult == RunResult(FALSE, FALSE, 0, 0, "none")

\* Single page: the output file is empty (0) or not (1).
PageResults ==
    {RunResult(FALSE, FALSE, 0, 0, ""), RunResult(TRUE, TRUE, 0, 0, "")}
    \cup {RunResult(TRUE, FALSE, 0, n, "") : n \in {0, 1}}
    \cup {RunResult(TRUE, FALSE, 1, n, m) : n \in {0, 1}, m \in StderrMessages}

\* --batch: 0 to MaxBatchPages page files are left behind.
BatchResults ==
    {RunResult(FALSE, FALSE, 0, 0, ""), RunResult(TRUE, TRUE, 0, 0, "")}
    \cup {RunResult(TRUE, FALSE, 0, n, "") : n \in 0..MaxBatchPages}
    \cup {RunResult(TRUE, FALSE, 1, n, m) :
              n \in 0..MaxBatchPages, m \in StderrMessages}

\* <<1, ..., n>>
Pages(n) == [k \in 1..n |-> k]

\* 2 ** n
RECURSIVE Pow2(_)
Pow2(n) == IF n = 0 THEN 1 ELSE 2 * Pow2(n - 1)

\* ------------------------------------------------------------------ state

VARIABLES
    jobs,        \* jobs table: job id -> row (NoJob if none)
    tasks,       \* BackgroundWorker.tasks: job ids holding a task handle
    taskpc,      \* position of the worker task _execute_task(job_id)
    expc,        \* position of the thread running _execute_scan(job_id)
    ejob,        \* _execute_scan's local `job` (last get_job result)
    exerr,       \* exception being handled / raised by _execute_scan
    hook,        \* webhook_url was supplied to start_scan
    artifact,    \* str(final_file): "none", "converted" or "raw"
    fileExists,  \* final_file exists on disk
    cpc,         \* position of cancel_job(job_id): "idle" or "write"
    cjob,        \* cancel_job's local `job`
    cancels,     \* number of cancel_job calls that have returned
    clast,       \* the last cancel_job call: job, status it read, result
    dpc,         \* position of deliver: "idle", "check", "attempt", "done"
    maxr,        \* deliver's max_retries argument
    target,      \* deliver's local `target`
    attempt,     \* deliver's loop variable
    calls,       \* protocol handler invocations of the current deliver
    sleeps,      \* delays passed to time.sleep by the current deliver
    last_error,  \* deliver's local last_error
    errs,        \* causes of the failed attempts, in order
    dres,        \* deliver's outcome: NoErr = returned, else the raised error
    batch_scan,  \* profile.get('batch_scan', False) of the job's profile
    source,      \* profile.get('source', 'Flatbed') of the job's profile
    page_num,    \* _execute_scan's page counter
    scanned_files,   \* _execute_scan's scanned_files, as page numbers
    thumbnail_bound, \* the local thumbnail_file has been assigned
    captures,    \* scanimage runs for this job (single-page or --batch)
    result,      \* outcome of the job's last scanimage run
    capture_end, \* the capture stage: "" (not over), "done" or "raised"
    converts,    \* converter runs for the final file of this job
    published,   \* status carried by the last job-update event of the job
    connection,  \* _parse_smb_connection's argument, as a sequence of tokens
    parsed,      \* what _parse_smb_connection returned or raised
    row,         \* the row of one job in the jobs table
    written,     \* the JobRecord object last given to update_job
    fetched,     \* the JobRecord object get_job returned after that
    is_running,        \* ScannerHealthMonitor.is_running
    hpc,               \* where the _monitor_loop task is
    scanner_status,    \* ScannerHealthMonitor._scanner_status, per device uri
    registered_devices,\* the devices the running tick is checking
    tick_failed,       \* the last tick logged an exception
    status_before      \* _scanner_status when the last tick began

vars == <<jobs, tasks, taskpc, expc, ejob, exerr, hook, artifact, fileExists,
          cpc, cjob, cancels, clast, dpc, maxr, target, attempt, calls,
          sleeps, last_error, errs, dres, batch_scan, source, page_num,
          scanned_files, thumbnail_bound, captures, result, capture_end,
          converts, published, connection, parsed, row, written, fetched,
          is_running, hpc, scanner_status, registered_devices, tick_failed,
          status_before>>

workerVars == <<tasks, taskpc>>
execVars == <<expc, ejob, exerr, artifact, fileExists>>
cancelVars == <<cpc, cjob, cancels, clast>>
deliverVars == <<dpc, maxr, target, attempt, calls, sleeps, last_error,
                 errs, dres>>
profileVars == <<batch_scan, source>>
pageVars == <<page_num, scanned_files, thumbnail_bound, captures, result,
              capture_end>>
captureVars == <<profileVars, pageVars, converts>>
smbVars == <<connection, parsed>>
storeVars == <<row, written, fetched>>
healthVars == <<is_running, hpc, scanner_status, registered_devices,
                tick_failed, status_before>>
otherVars == <<smbVars, storeVars, healthVars>>

\* _execute_scan before its capture stage: scanned_files = [], page_num = 1,
\* thumbnail_file not yet assigned, nothing run.
NoPages ==
    /\ page_num = [j \in JobIds |-> 1]
    /\ scanned_files = [j \in JobIds |-> <<>>]
    /\ thumbnail_bound = [j \in JobIds |-> FALSE]
    /\ captures = [j \in JobIds |-> 0]
    /\ result = [j \in JobIds |-> NoResult]
    /\ capture_end = [j \in JobIds |-> ""]
    /\ converts = [j \in JobIds |-> 0]
    /\ published = [j \in JobIds |-> "none"]

\* cancel_job call record before any call.
NoCall == [job |-> "", seen |-> "", ret |-> FALSE]

\* ---------------------------------------------------------------------
\* TargetManager._parse_smb_connection.  A connection string is a sequence
\* of tokens: the two separators and names that stand for one or more
\* characters other than a separator.
\* ---------------------------------------------------------------------
MaxConnLen == 5
Names == {"host", "share", "sub"}
Separators == {"/", "\\"}
Tokens == Separators \cup Names

\* All token sequences of at most n tokens.
RECURSIVE StringsUpTo(_)
StringsUpTo(n) ==
    IF n = 0 THEN {<<>>}
    ELSE LET shorter == StringsUpTo(n - 1)
         IN  shorter \cup {Append(c, t) : c \in {x \in shorter : Len(x) = n - 1},
                                         t \in Tokens}

\* The three notations of one share path: //host/share/sub and its forms
\* with backslashes and without leading separators.
Examples ==
    {<<"/", "/", "host", "/", "share", "/", "sub">>,
     <<"\\", "\\", "host", "\\", "share", "\\", "sub">>,
     <<"host", "/", "share", "/", "sub">>}

Connections == StringsUpTo(MaxConnLen) \cup Examples

\* connection.replace('\\', '/')
replace_backslash(c) == [i \in 1..Len(c) |-> IF c[i] = "\\" THEN "/" ELSE c[i]]

\* normalized.lstrip('/') stripping one slash only.
lstrip_one(c) == IF c # <<>> /\ Head(c) = "/" THEN Tail(c) ELSE c

\* normalized.lstrip('/')
RECURSIVE lstrip(_)
lstrip(c) == IF c # <<>> /\ Head(c) = "/" THEN lstrip(Tail(c)) ELSE c

\* normalized.split('/'): the pieces between the slashes, empty ones kept;
\* the empty string gives one empty piece.
RECURSIVE split(_)
split(c) ==
    IF \A i \in 1..Len(c) : c[i] # "/" THEN <<c>>
    ELSE LET i == CHOOSE k \in 1..Len(c) :
                      c[k] = "/" /\ \A m \in 1..(k - 1) : c[m] # "/"
         IN  <<SubSeq(c, 1, i - 1)>> \o split(SubSeq(c, i + 1, Len(c)))

\* '/'.join(parts)
RECURSIVE join(_)
join(parts) ==
    IF parts = <<>> THEN <<>>
    ELSE IF Len(parts) = 1 THEN parts[1]
    ELSE parts[1] \o <<"/">> \o join(Tail(parts))

ValueError(text) == [ok |-> FALSE, error |-> text]
Parsed(server, share_name, path) ==
    [ok |-> TRUE, server |-> server, share |-> share_name, path |-> path]

_parse_smb_connection(c) ==
    IF c = <<>> THEN ValueError("Connection string is empty")
    ELSE LET normalized == lstrip(replace_backslash(c))
             parts == split(normalized)
         IN  IF Len(parts) < 2
             THEN ValueError("Invalid SMB path format")
             ELSE LET server == parts[1]
                      share_name == parts[2]
                      path == IF Len(parts) > 2
                              THEN join(SubSeq(parts, 3, Len(parts)))
                              ELSE <<>>
                  IN  IF server = <<>>
                      THEN ValueError("Server name/IP is required")
                      ELSE IF share_name = <<>>
                      THEN ValueError("Share name is required")
                      ELSE Parsed(server, share_name, path)

\* No connection string has been given to _parse_smb_connection.
NoParse == [ok |-> FALSE, error |-> "not called"]

\* ---------------------------------------------------------------------
\* JobRecord objects and the jobs table.  The object has a thumbnail_path
\* attribute; the table has the columns id, job_type, device_id, target_id,
\* printer_id, status, file_path, message, created_at, updated_at.
\* ---------------------------------------------------------------------
FilePaths == {NoPath, "scan.pdf"}
ThumbnailPaths == {"null", "scan_thumb.jpg"}
Messages == {Null, Msg("Scan completed successfully", NoErr),
             Msg("Job cancelled by user", NoErr)}

\* models.JobRecord with the attributes a caller may set before update_job.
JobObject(status, file_path, message, thumbnail_path) ==
    [status |-> status, file_path |-> file_path, message |-> message,
     thumbnail_path |-> thumbnail_path]

JobObjects ==
    {JobObject(s, f, m, t) : s \in JobStatus, f \in FilePaths, m \in Messages,
                             t \in ThumbnailPaths}

\* JobRepository.update: UPDATE jobs SET status, file_path, message.
update_row(job) == JobRecord(job.status, job.file_path, job.message)

\* JobRepository.get: a JobRecord built from the columns of the row;
\* thumbnail_path is not passed and takes its default None.
get_row(r) == JobObject(r.status, r.file_path, r.message, "null")

NoObject == JobObject("absent", NoPath, Null, "null")

\* ---------------------------------------------------------------------
\* ScannerHealthMonitor.  The status cache maps a device uri to its entry;
\* of an entry the model keeps 'online' ("unknown": no entry).
\* ---------------------------------------------------------------------
Scanners == {"s1", "s2"}

\* device_repo.list_devices(device_type='scanner', active_only=True), when
\* it is not empty.
DeviceLists == {<<"s1">>, <<"s2">>, <<"s1", "s2">>}

\* The for loop of _check_scanners over the devices devs: each entry is
\* written before the transition is logged, and update_last_seen (called
\* for a device that became online) raises for the devices in failing.
RECURSIVE check_devices(_, _, _, _)
check_devices(status, devs, available_uris, failing) ==
    IF devs = <<>> THEN [status |-> status, raised |-> FALSE]
    ELSE LET uri == Head(devs)
             was_online == status[uri] = "online"
             is_online == uri \in available_uris
             updated == [status EXCEPT
                           ![uri] = IF is_online THEN "online" ELSE "offline"]
         IN  IF is_online # was_online /\ is_online /\ uri \in failing
             THEN [status |-> updated, raised |-> TRUE]
             ELSE check_devices(updated, Tail(devs), available_uris, failing)

SmbIdle ==
    /\ connection = <<>>
    /\ parsed = NoParse

StoreIdle ==
    /\ row = NoJob
    /\ written = NoObject
    /\ fetched = NoObject

\* ScannerHealthMonitor.__init__
HealthIdle ==
    /\ is_running = FALSE
    /\ hpc = "none"
    /\ scanner_status = [d \in Scanners |-> "unknown"]
    /\ registered_devices = <<>>
    /\ tick_failed = FALSE
    /\ status_before = [d \in Scanners |-> "unknown"]

\* The components outside the scan pipeline, before they are used.
Elsewhere == SmbIdle /\ StoreIdle /\ HealthIdle

\* The scan pipeline after construction: no jobs, no tasks, nothing running.
Idle ==
    /\ jobs = [j \in JobIds |-> NoJob]
    /\ tasks = {}
    /\ taskpc = [j \in JobIds |-> "none"]
    /\ expc = [j \in JobIds |-> "idle"]
    /\ ejob = [j \in JobIds |-> NoJob]
    /\ exerr = [j \in JobIds |-> NoErr]
    /\ hook = [j \in JobIds |-> FALSE]
    /\ artifact = [j \in JobIds |-> "none"]
    /\ fileExists = [j \in JobIds |-> FALSE]
    /\ cpc = [j \in JobIds |-> "idle"]
    /\ cjob = [j \in JobIds |-> NoJob]
    /\ cancels = 0
    /\ clast = NoCall
    /\ dpc = [j \in JobIds |-> "idle"]
    /\ maxr = [j \in JobIds |-> DefaultMaxRetries]
    /\ target = [j \in JobIds |-> NoTarget]
    /\ attempt = [j \in JobIds |-> 0]
    /\ calls = [j \in JobIds |-> 0]
    /\ sleeps = [j \in JobIds |-> <<>>]
    /\ last_error = [j \in JobIds |-> NoErr]
    /\ errs = [j \in JobIds |-> <<>>]
    /\ dres = [j \in JobIds |-> NoErr]
    /\ batch_scan = [j \in JobIds |-> FALSE]
    /\ source = [j \in JobIds |-> "Flatbed"]
    /\ NoPages

Init == Idle /\ Elsewhere

\* The event loop is free: no route handler is in the middle of its body.
\* (cancel_job is split at its update_job only so that thread-pool threads
\* can interleave; other event-loop code cannot run in between.)
LoopFree == \A j \in JobIds : cpc[j] = "idle"

\* JobRepository.update: writes status, file_path and message of the row.
repo_update(j, job) == jobs' = [jobs EXCEPT ![j] = job]

\* JobManager._broadcast_job_update: on the event loop thread
\* asyncio.get_event_loop() is the running loop and a send_job_update
\* task carrying the job's status is created; in a thread-pool thread
\* there is no current loop (RuntimeError, or a loop that is not running)
\* and the broadcast is skipped.
broadcast_job_update(j, job, loop_running) ==
    published' = [published EXCEPT ![j] = IF loop_running THEN job.status ELSE @]

\* JobManager.update_job called on the event loop (worker task, routes).
update_job(j, job) ==
    /\ repo_update(j, job)
    /\ broadcast_job_update(j, job, TRUE)

\* JobManager.update_job called from the thread that run_in_executor gave
\* to _execute_scan.
update_job_in_thread(j, job) ==
    /\ repo_update(j, job)
    /\ broadcast_job_update(j, job, FALSE)

\* ------------------------------------------------------------------ routes

\* JobManager.create_job / JobRepository.create: inserts the row with the
\* given status, file_path and message NULL.
create_job(j, status) ==
    /\ jobs' = [jobs EXCEPT ![j] = JobRecord(status, NoPath, Null)]
    /\ broadcast_job_update(j, JobRecord(status, NoPath, Null), TRUE)

\* BackgroundWorker.submit_task: create the task, record its handle.
submit_task(j) ==
    /\ tasks' = tasks \cup {j}
    /\ taskpc' = [taskpc EXCEPT ![j] = "pending"]

\* _execute_scan: profile = profiles.get(profile_id, default); batch_scan
\* and source are read from it.  The profile is fixed by the profile_id
\* given to start_scan.
use_profile(j, p) ==
    /\ batch_scan' = [batch_scan EXCEPT ![j] = p.batch_scan]
    /\ source' = [source EXCEPT ![j] = p.source]

\* start_scan that creates the job already running.
start_scan_running(j, h) ==
    /\ LoopFree
    /\ jobs[j] = NoJob
    /\ taskpc[j] = "none"
    /\ create_job(j, "running")
    /\ submit_task(j)
    /\ hook' = [hook EXCEPT ![j] = h]
    /\ \E p \in BuiltinProfiles : use_profile(j, p)
    /\ UNCHANGED <<execVars, cancelVars, deliverVars, pageVars, converts,
                   otherVars>>

\* ScannerManager.start_scan (called by the async route start_scan):
\* create_job(status=queued), then submit_task; the task body does not run
\* before the route returns to the event loop.
start_scan(j, h) ==
    /\ LoopFree
    /\ jobs[j] = NoJob
    /\ taskpc[j] = "none"
    /\ create_job(j, "queued")
    /\ submit_task(j)
    /\ hook' = [hook EXCEPT ![j] = h]
    /\ \E p \in BuiltinProfiles : use_profile(j, p)
    /\ UNCHANGED <<execVars, cancelVars, deliverVars, pageVars, converts,
                   otherVars>>

\* BackgroundWorker.cancel_task: cancel the task if it has a handle and is
\* not done, and drop the handle.  A task cancelled before its first step
\* never runs its body; a task cancelled while awaiting run_in_executor is
\* abandoned (CancelledError is not an Exception), the thread keeps running
\* unless the pool had not started the work item yet.
cancel_task(j) ==
    IF j \in tasks
    THEN /\ tasks' = tasks \ {j}
         /\ taskpc' = [taskpc EXCEPT ![j] = "cancelled"]
         /\ expc' = [expc EXCEPT ![j] = IF @ = "queued" THEN "dropped" ELSE @]
    ELSE UNCHANGED <<tasks, taskpc, expc>>

\* The statuses cancel_job accepts.
Cancellable == {"queued", "running"}

\* cancel_job that also accepts completed jobs.
cancel_job_read_any(j) ==
    /\ LoopFree
    /\ cancels < MaxCancels
    /\ IF jobs[j].status \notin (Cancellable \cup {"completed"})
       THEN /\ cancels' = cancels + 1
            /\ clast' = [job |-> j, seen |-> jobs[j].status, ret |-> FALSE]
            /\ UNCHANGED <<jobs, tasks, taskpc, expc, cpc, cjob>>
       ELSE /\ cancel_task(j)
            /\ cjob' = [cjob EXCEPT ![j] = jobs[j]]
            /\ cpc' = [cpc EXCEPT ![j] = "write"]
            /\ UNCHANGED <<jobs, cancels, clast>>
    /\ UNCHANGED <<ejob, exerr, hook, captureVars, otherVars, published, artifact, fileExists, deliverVars>>

\* JobManager.cancel_job, first half: get_job; return False if the job is
\* missing or not queued/running; otherwise cancel_task.
cancel_job_read(j) ==
    /\ LoopFree
    /\ cancels < MaxCancels
    /\ IF jobs[j].status \notin Cancellable
       THEN /\ cancels' = cancels + 1
            /\ clast' = [job |-> j, seen |-> jobs[j].status, ret |-> FALSE]
            /\ UNCHANGED <<jobs, tasks, taskpc, expc, cpc, cjob>>
       ELSE /\ cancel_task(j)
            /\ cjob' = [cjob EXCEPT ![j] = jobs[j]]
            /\ cpc' = [cpc EXCEPT ![j] = "write"]
            /\ UNCHANGED <<jobs, cancels, clast>>
    /\ UNCHANGED <<ejob, exerr, hook, captureVars, otherVars, published, artifact, fileExists, deliverVars>>

\* cancel_job that cancels the task but does not persist the status.
cancel_job_write_lost(j) ==
    /\ cpc[j] = "write"
    /\ cpc' = [cpc EXCEPT ![j] = "idle"]
    /\ cancels' = cancels + 1
    /\ clast' = [job |-> j, seen |-> cjob[j].status, ret |-> TRUE]
    /\ UNCHANGED <<jobs, workerVars, execVars, hook, captureVars, otherVars, published, cjob, deliverVars>>

\* JobManager.cancel_job, second half: status = cancelled, message set,
\* update_job with the record read in the first half; return True.
cancel_job_write(j) ==
    /\ cpc[j] = "write"
    /\ update_job(j, [cjob[j] EXCEPT !.status = "cancelled",
                                     !.message = Msg("Job cancelled by user", NoErr)])
    /\ cpc' = [cpc EXCEPT ![j] = "idle"]
    /\ cancels' = cancels + 1
    /\ clast' = [job |-> j, seen |-> cjob[j].status, ret |-> TRUE]
    /\ UNCHANGED <<workerVars, execVars, hook, captureVars, otherVars, cjob, deliverVars>>

\* ------------------------------------------------------------------ worker

\* _execute_task, up to the await: get_job, status = running, update_job,
\* then coro() hands _execute_scan to the thread pool.
worker_start(j) ==
    /\ LoopFree
    /\ taskpc[j] = "pending"
    /\ update_job(j, [jobs[j] EXCEPT !.status = "running"])
    /\ taskpc' = [taskpc EXCEPT ![j] = "awaiting"]
    /\ expc' = [expc EXCEPT ![j] = "queued"]
    /\ UNCHANGED <<tasks, ejob, exerr, hook, captureVars, otherVars, artifact, fileExists,
                   cancelVars, deliverVars>>

\* The success path without the finally clause: the handle stays.
worker_finish_ok_keep(j) ==
    /\ LoopFree
    /\ taskpc[j] = "awaiting"
    /\ expc[j] = "returned"
    /\ update_job(j, [jobs[j] EXCEPT !.status = "completed"])
    /\ taskpc' = [taskpc EXCEPT ![j] = "done"]
    /\ UNCHANGED <<tasks, execVars, hook, captureVars, otherVars, cancelVars, deliverVars>>

\* _execute_task after coro() returned: get_job, status = completed,
\* update_job; finally: pop the handle.
worker_finish_ok(j) ==
    /\ LoopFree
    /\ taskpc[j] = "awaiting"
    /\ expc[j] = "returned"
    /\ update_job(j, [jobs[j] EXCEPT !.status = "completed"])
    /\ tasks' = tasks \ {j}
    /\ taskpc' = [taskpc EXCEPT ![j] = "done"]
    /\ UNCHANGED <<execVars, hook, captureVars, otherVars, cancelVars, deliverVars>>

\* The worker's except branch without the status update.
worker_finish_err_silent(j) ==
    /\ LoopFree
    /\ taskpc[j] = "awaiting"
    /\ expc[j] = "raised"
    /\ tasks' = tasks \ {j}
    /\ taskpc' = [taskpc EXCEPT ![j] = "done"]
    /\ UNCHANGED <<jobs, execVars, hook, captureVars, otherVars, published, cancelVars, deliverVars>>

\* _execute_task after coro() raised: get_job, status = failed,
\* message = "Error: " + str(e), update_job; finally: pop the handle.
worker_finish_err(j) ==
    /\ LoopFree
    /\ taskpc[j] = "awaiting"
    /\ expc[j] = "raised"
    /\ update_job(j, [jobs[j] EXCEPT !.status = "failed",
                                     !.message = Msg("Error: ", exerr[j])])
    /\ tasks' = tasks \ {j}
    /\ taskpc' = [taskpc EXCEPT ![j] = "done"]
    /\ UNCHANGED <<execVars, hook, captureVars, otherVars, cancelVars, deliverVars>>

\* ------------------------------------------------------------------ _execute_scan

\* Move the scan thread of job j to position p.
goto(j, p) == expc' = [expc EXCEPT ![j] = p]

\* raise e inside _execute_scan's try: control passes to its except branch.
raise_in_scan(j, e) ==
    /\ exerr' = [exerr EXCEPT ![j] = e]
    /\ goto(j, "ex_get")

\* job = job_manager.get_job(job_id), then continue at position p.
get_job(j, p) ==
    /\ ejob' = [ejob EXCEPT ![j] = jobs[j]]
    /\ goto(j, p)

\* The thread pool starts the work item.
scan_begin(j) ==
    /\ expc[j] = "queued"
    /\ goto(j, "run_get")
    /\ UNCHANGED <<jobs, workerVars, ejob, exerr, hook, captureVars, otherVars, published, artifact, fileExists,
                   cancelVars, deliverVars>>

\* _execute_scan: job = get_job(job_id)
scan_run_get(j) ==
    /\ expc[j] = "run_get"
    /\ get_job(j, "run_upd")
    /\ UNCHANGED <<jobs, workerVars, exerr, hook, captureVars, otherVars, published, artifact, fileExists,
                   cancelVars, deliverVars>>

\* _execute_scan: job.status = running; update_job(job)
scan_run_upd(j) ==
    /\ expc[j] = "run_upd"
    /\ update_job_in_thread(j, [ejob[j] EXCEPT !.status = "running"])
    /\ goto(j, "capture")
    /\ UNCHANGED <<workerVars, ejob, exerr, hook, captureVars, otherVars, artifact, fileExists,
                   cancelVars, deliverVars>>

\* The capture stage raises e.
capture_raise(j, e) ==
    /\ capture_end' = [capture_end EXCEPT ![j] = "raised"]
    /\ raise_in_scan(j, e)

\* The capture stage is left without the test of scanned_files.
capture_break_unchecked(j, files) ==
    /\ capture_end' = [capture_end EXCEPT ![j] = "done"]
    /\ goto(j, "convert")
    /\ UNCHANGED exerr

\* The capture stage is left with the given scanned_files:
\* if not scanned_files: raise Exception("No pages were scanned
\* successfully"); else on to the conversion.
capture_break(j, files) ==
    IF files = <<>>
    THEN capture_raise(j, Err("No pages were scanned successfully", "", 0, "", ""))
    ELSE /\ capture_end' = [capture_end EXCEPT ![j] = "done"]
         /\ goto(j, "convert")
         /\ UNCHANGED exerr

\* Native batch: returncode 0 and at least one page file found.
batch_ok(r) == r.started /\ ~r.timeout /\ r.rc = 0 /\ r.out > 0

\* Native batch: the exception a run that is not a success ends in.
batch_error(r) ==
    IF ~r.started THEN Err("OSError", "", 0, "", "scanimage")
    ELSE IF r.timeout THEN Err("Batch scan timeout after 5 minutes", "", 0, "", "")
    ELSE IF r.rc # 0 THEN Err("Batch scan failed", "", 0, "", r.msg)
    ELSE Err("No pages were scanned in batch mode", "", 0, "", "")

\* _execute_scan, `if batch_scan and source == 'ADF'`: one scanimage
\* --batch run; its page files become scanned_files and the thumbnail is
\* made from the first, or the branch raises.
scan_batch(j) ==
    /\ expc[j] = "capture"
    /\ batch_scan[j] /\ source[j] = "ADF"
    /\ captures' = [captures EXCEPT ![j] = @ + 1]
    /\ \E r \in BatchResults :
         /\ result' = [result EXCEPT ![j] = r]
         /\ IF batch_ok(r)
            THEN /\ scanned_files' = [scanned_files EXCEPT ![j] = Pages(r.out)]
                 /\ thumbnail_bound' = [thumbnail_bound EXCEPT ![j] = TRUE]
                 /\ capture_break(j, Pages(r.out))
            ELSE /\ capture_raise(j, batch_error(r))
                 /\ UNCHANGED <<scanned_files, thumbnail_bound>>
    /\ UNCHANGED <<jobs, published, otherVars, workerVars, ejob, hook, artifact, fileExists,
                   cancelVars, deliverVars, profileVars, page_num, converts>>

\* The file of a page whose capture ended in an empty-feeder error is
\* never kept.
keep_partial_never(r) == FALSE

\* Manual loop, empty-feeder branch: `if tiff_file.exists()` and
\* `file_size > 0`: the page "was partially scanned" and is appended.
keep_partial(r) == r.out > 0

\* The limit is tested one page late.
over_limit_late(n) == n > PageLimit + 1

\* Manual loop: if page_num > 100: break
over_limit(n) == n > PageLimit

\* Manual loop: the run exited with 0 and left a non-empty file:
\* scanned_files.append(tiff_file).
page_ok(r) == r.started /\ ~r.timeout /\ r.rc = 0 /\ r.out > 0

\* A timeout never ends the loop normally.
page_break_timeout_fatal(j, r) ==
    /\ r.started
    /\ batch_scan[j]
    /\ ~r.timeout
    /\ IF r.rc # 0 THEN is_adf_empty(r.msg)
       ELSE r.out = 0 /\ page_num[j] > 1

\* An empty file ends the loop normally on the first page too.
page_break_empty_first(j, r) ==
    /\ r.started
    /\ batch_scan[j]
    /\ IF r.timeout THEN page_num[j] > 1
       ELSE IF r.rc # 0 THEN is_adf_empty(r.msg)
       ELSE r.out = 0

\* Manual loop: the run ends the loop as "feeder empty":
\* a non-zero exit whose message matches in batch mode, or an empty file
\* or a timeout after the first page in batch mode.
page_break(j, r) ==
    /\ r.started
    /\ batch_scan[j]
    /\ IF r.timeout THEN page_num[j] > 1
       ELSE IF r.rc # 0 THEN is_adf_empty(r.msg)
       ELSE r.out = 0 /\ page_num[j] > 1

\* Manual loop: the exception a run that neither is a page nor ends the
\* loop raises.
page_error(r) ==
    IF ~r.started THEN Err("OSError", "", 0, "", "scanimage")
    ELSE IF r.timeout THEN Err("Scan timeout", "", 0, "", "")
    ELSE IF r.rc # 0 THEN Err("scanimage failed", "", 0, "", r.msg)
    ELSE Err("Scanner returned empty file", "", 0, "", "")

\* Manual loop: scanned_files after the run.
page_files(j, r) ==
    IF page_ok(r)
       \/ (page_break(j, r) /\ ~r.timeout /\ r.rc # 0 /\ keep_partial(r))
    THEN Append(scanned_files[j], page_num[j])
    ELSE scanned_files[j]

\* _execute_scan, the else branch: one iteration of `while True`, from the
\* scanimage run for page page_num to the break, raise or next iteration.
\* The thumbnail is made after the first page; its errors are swallowed.
scan_page(j) ==
    /\ expc[j] = "capture"
    /\ ~(batch_scan[j] /\ source[j] = "ADF")
    /\ captures' = [captures EXCEPT ![j] = @ + 1]
    /\ \E r \in PageResults :
         /\ result' = [result EXCEPT ![j] = r]
         /\ scanned_files' = [scanned_files EXCEPT ![j] = page_files(j, r)]
         /\ thumbnail_bound' =
               [thumbnail_bound EXCEPT ![j] = @ \/ (page_ok(r) /\ page_num[j] = 1)]
         /\ page_num' =
               [page_num EXCEPT ![j] = IF page_ok(r) /\ batch_scan[j] THEN @ + 1 ELSE @]
         /\ IF page_ok(r)
            THEN IF ~batch_scan[j] \/ over_limit(page_num[j] + 1)
                 THEN capture_break(j, page_files(j, r))
                 ELSE UNCHANGED <<expc, exerr, capture_end>>
            ELSE IF page_break(j, r)
            THEN capture_break(j, page_files(j, r))
            ELSE capture_raise(j, page_error(r))
    /\ UNCHANGED <<jobs, published, otherVars, workerVars, ejob, hook, artifact, fileExists,
                   cancelVars, deliverVars, profileVars, converts>>

\* _execute_scan: the capture stage, native batch or page loop; it either
\* leaves a non-empty scanned_files or raises.
scan_capture(j) == scan_batch(j) \/ scan_page(j)

\* _execute_scan: conversion to the profile's format.  Success leaves the
\* converted file, a failed conversion keeps the first raw page, a
\* converter timeout (subprocess.TimeoutExpired) is not caught locally.
scan_convert(j) ==
    /\ expc[j] = "convert"
    /\ converts' = [converts EXCEPT ![j] = @ + 1]
    /\ \/ /\ \E a \in {"converted", "raw"} : artifact' = [artifact EXCEPT ![j] = a]
          /\ fileExists' = [fileExists EXCEPT ![j] = TRUE]
          /\ goto(j, "fp_get")
          /\ UNCHANGED exerr
       \/ /\ raise_in_scan(j, Err("convert timeout", "", 0, "", ""))
          /\ UNCHANGED <<artifact, fileExists>>
    /\ UNCHANGED <<jobs, published, otherVars, workerVars, ejob, hook, cancelVars, deliverVars,
                   profileVars, pageVars>>

\* _execute_scan: "Update job with file path": job = get_job(job_id)
scan_fp_get(j) ==
    /\ expc[j] = "fp_get"
    /\ get_job(j, "fp_upd")
    /\ UNCHANGED <<jobs, workerVars, exerr, hook, captureVars, otherVars, published, artifact, fileExists,
                   cancelVars, deliverVars>>

\* _execute_scan: job.file_path = str(final_file); the test of
\* thumbnail_file, which raises UnboundLocalError if no branch of the
\* capture stage assigned it; job.status = completed; update_job(job);
\* then the thumbnail (no effect on the job) and the call of deliver with
\* the default max_retries.
scan_fp_upd(j) ==
    /\ expc[j] = "fp_upd"
    /\ IF thumbnail_bound[j]
       THEN /\ update_job_in_thread(j, [ejob[j] EXCEPT !.file_path = artifact[j],
                                            !.status = "completed"])
            /\ goto(j, "deliver")
            /\ dpc' = [dpc EXCEPT ![j] = "check"]
            /\ maxr' = [maxr EXCEPT ![j] = DefaultMaxRetries]
            /\ UNCHANGED exerr
       ELSE /\ raise_in_scan(j, Err("UnboundLocalError", "", 0, "", "thumbnail_file"))
            /\ UNCHANGED <<jobs, published, dpc, maxr>>
    /\ UNCHANGED <<workerVars, ejob, hook, captureVars, otherVars, artifact, fileExists,
                   cancelVars, target, attempt, calls, sleeps, last_error,
                   errs, dres>>

\* ------------------------------------------------------------------ deliver

\* The target id passed to deliver, as it appears in error texts.
TargetId == "tid"

\* deliver ends: it returned (e = NoErr) or raised e.
deliver_end(j, e) ==
    /\ dres' = [dres EXCEPT ![j] = e]
    /\ dpc' = [dpc EXCEPT ![j] = "done"]

\* Only a missing row is refused; a disabled target is delivered to.
unusable_missing_only(t) == ~t.present

\* deliver: if not target or not target.enabled
unusable(t) == ~t.present \/ ~t.enabled

\* deliver, before the loop: target = repo.get(target_id); raise if it is
\* missing or disabled; raise if the file does not exist; last_error = None.
deliver_check(j) ==
    /\ dpc[j] = "check"
    /\ \E t \in TargetRows :
         /\ target' = [target EXCEPT ![j] = t]
         /\ IF unusable(t)
            THEN /\ deliver_end(j, Err("target not found or disabled", TargetId, 0, "", ""))
                 /\ UNCHANGED <<attempt, last_error>>
            ELSE IF ~fileExists[j]
            THEN /\ deliver_end(j, Err("file not found", "", 0, "", ""))
                 /\ UNCHANGED <<attempt, last_error>>
            ELSE /\ dpc' = [dpc EXCEPT ![j] = "attempt"]
                 /\ attempt' = [attempt EXCEPT ![j] = 0]
                 /\ last_error' = [last_error EXCEPT ![j] = NoErr]
                 /\ UNCHANGED dres
    /\ UNCHANGED <<jobs, workerVars, execVars, hook, captureVars, otherVars, published, cancelVars, maxr, calls,
                   sleeps, errs>>

\* Backoff of 2, 4, 8 seconds (what the comment in the code announces).
delay_doubled(a) == Pow2(a + 1)

\* deliver: delay = 2 ** attempt
delay(a) == Pow2(a)

\* One attempt too many.
retry_after_inclusive(a, max_retries) == a < max_retries

\* deliver: "Don't retry on final attempt": attempt < max_retries - 1
retry_after(a, max_retries) == a < max_retries - 1

\* deliver, the except branch of one loop iteration that raised e:
\* last_error = e; sleep and go on if this was not the final attempt,
\* else leave the loop and raise the aggregate error.
attempt_failed(j, e) ==
    /\ last_error' = [last_error EXCEPT ![j] = e]
    /\ errs' = [errs EXCEPT ![j] = Append(@, e.cause)]
    /\ IF retry_after(attempt[j], maxr[j])
       THEN /\ sleeps' = [sleeps EXCEPT ![j] = Append(@, delay(attempt[j]))]
            /\ attempt' = [attempt EXCEPT ![j] = @ + 1]
            /\ UNCHANGED <<dpc, dres>>
       ELSE /\ deliver_end(j, Err("delivery failed", target[j].name, maxr[j],
                                  e.kind, e.cause))
            /\ UNCHANGED <<sleeps, attempt>>

\* deliver, one loop iteration on a supported type whose handler returns:
\* return.
deliver_attempt_ok(j) ==
    /\ dpc[j] = "attempt"
    /\ target[j].type \in SupportedTypes
    /\ calls' = [calls EXCEPT ![j] = @ + 1]
    /\ deliver_end(j, NoErr)
    /\ UNCHANGED <<jobs, workerVars, execVars, hook, captureVars, otherVars, published, cancelVars, maxr,
                   target, attempt, sleeps, last_error, errs>>

\* deliver, one loop iteration on a supported type whose handler raises.
deliver_attempt_fail(j) ==
    /\ dpc[j] = "attempt"
    /\ target[j].type \in SupportedTypes
    /\ calls' = [calls EXCEPT ![j] = @ + 1]
    /\ \E c \in DeliveryErrors : attempt_failed(j, Err("handler", "", 0, "", c))
    /\ UNCHANGED <<jobs, workerVars, execVars, hook, captureVars, otherVars, published, cancelVars, maxr, target>>

\* deliver, one loop iteration on an unsupported type: the else branch
\* raises inside the try, so the except branch handles it like any failure.
deliver_attempt_unsupported(j) ==
    /\ dpc[j] = "attempt"
    /\ target[j].type \notin SupportedTypes
    /\ attempt_failed(j, Err("unsupported target type", "", 0, "", target[j].type))
    /\ UNCHANGED <<jobs, workerVars, execVars, hook, captureVars, otherVars, published, cancelVars, maxr, target,
                   calls>>

\* ------------------------------------------------------------------ _execute_scan, after deliver

\* deliver returned: job = get_job(job_id)
scan_ok_get(j) ==
    /\ expc[j] = "deliver"
    /\ dpc[j] = "done"
    /\ dres[j] = NoErr
    /\ get_job(j, "ok_upd")
    /\ UNCHANGED <<jobs, workerVars, exerr, hook, captureVars, otherVars, published, artifact, fileExists,
                   cancelVars, deliverVars>>

\* job.status = completed; job.message = None; update_job(job)
scan_ok_upd(j) ==
    /\ expc[j] = "ok_upd"
    /\ update_job_in_thread(j, [ejob[j] EXCEPT !.status = "completed", !.message = Null])
    /\ goto(j, "cleanup")
    /\ UNCHANGED <<workerVars, ejob, exerr, hook, captureVars, otherVars, artifact, fileExists,
                   cancelVars, deliverVars>>

\* The file is left in place after a successful upload.
scan_cleanup_skipped(j) ==
    /\ expc[j] = "cleanup"
    /\ goto(j, "webhook")
    /\ UNCHANGED <<jobs, workerVars, ejob, exerr, hook, captureVars, otherVars, published, artifact,
                   fileExists, cancelVars, deliverVars>>

\* "Clean up local files after successful upload": unlink final_file.
scan_cleanup(j) ==
    /\ expc[j] = "cleanup"
    /\ fileExists' = [fileExists EXCEPT ![j] = FALSE]
    /\ goto(j, "webhook")
    /\ UNCHANGED <<jobs, workerVars, ejob, exerr, hook, captureVars, otherVars, published, artifact,
                   cancelVars, deliverVars>>

\* deliver raised: except Exception as delivery_error: job = get_job(job_id)
scan_df_get(j) ==
    /\ expc[j] = "deliver"
    /\ dpc[j] = "done"
    /\ dres[j] # NoErr
    /\ get_job(j, "df_upd")
    /\ UNCHANGED <<jobs, workerVars, exerr, hook, captureVars, otherVars, published, artifact, fileExists,
                   cancelVars, deliverVars>>

\* A failed delivery marks the job failed.
scan_df_upd_failed(j) ==
    /\ expc[j] = "df_upd"
    /\ update_job_in_thread(j, [ejob[j] EXCEPT !.status = "failed",
                                     !.message = Msg("Upload failed: ", dres[j])])
    /\ goto(j, "webhook")
    /\ UNCHANGED <<workerVars, ejob, exerr, hook, captureVars, otherVars, artifact, fileExists,
                   cancelVars, deliverVars>>

\* A failed delivery removes the local file like a successful one.
scan_df_upd_cleanup(j) ==
    /\ expc[j] = "df_upd"
    /\ update_job_in_thread(j, [ejob[j] EXCEPT !.status = "completed",
                                     !.message = Msg("Upload failed: ", dres[j])])
    /\ fileExists' = [fileExists EXCEPT ![j] = FALSE]
    /\ goto(j, "webhook")
    /\ UNCHANGED <<workerVars, ejob, exerr, hook, captureVars, otherVars, artifact,
                   cancelVars, deliverVars>>

\* job.status = completed; job.message = "Upload failed: ..."; update_job
scan_df_upd(j) ==
    /\ expc[j] = "df_upd"
    /\ update_job_in_thread(j, [ejob[j] EXCEPT !.status = "completed",
                                     !.message = Msg("Upload failed: ", dres[j])])
    /\ goto(j, "webhook")
    /\ UNCHANGED <<workerVars, ejob, exerr, hook, captureVars, otherVars, artifact, fileExists,
                   cancelVars, deliverVars>>

\* "Send webhook notification if configured": the metadata is built from
\* final_file.stat(), which raises if the file is gone; the notification
\* itself swallows its errors.  Without a webhook_url the function returns.
scan_webhook(j) ==
    /\ expc[j] = "webhook"
    /\ IF hook[j] /\ ~fileExists[j]
       THEN raise_in_scan(j, Err("FileNotFoundError", "", 0, "", artifact[j]))
       ELSE goto(j, "returned") /\ UNCHANGED exerr
    /\ UNCHANGED <<jobs, workerVars, ejob, hook, captureVars, otherVars, published, artifact, fileExists,
                   cancelVars, deliverVars>>

\* except Exception as e: job = get_job(job_id)
scan_ex_get(j) ==
    /\ expc[j] = "ex_get"
    /\ get_job(j, "ex_upd")
    /\ UNCHANGED <<jobs, workerVars, exerr, hook, captureVars, otherVars, published, artifact, fileExists,
                   cancelVars, deliverVars>>

\* job.status = failed; job.message = str(e); update_job(job)
scan_ex_upd(j) ==
    /\ expc[j] = "ex_upd"
    /\ update_job_in_thread(j, [ejob[j] EXCEPT !.status = "failed",
                                     !.message = Msg("", exerr[j])])
    /\ goto(j, "ex_raise")
    /\ UNCHANGED <<workerVars, ejob, exerr, hook, captureVars, otherVars, artifact, fileExists,
                   cancelVars, deliverVars>>

\* the failure notification (best effort), then raise
scan_raise(j) ==
    /\ expc[j] = "ex_raise"
    /\ goto(j, "raised")
    /\ UNCHANGED <<jobs, workerVars, ejob, exerr, hook, captureVars, otherVars, published, artifact, fileExists,
                   cancelVars, deliverVars>>

\* ------------------------------------------------------------------ specifications

\* One step of the scan thread of job j, deliver included.
ScanStep(j) ==
    \/ scan_begin(j) \/ scan_run_get(j) \/ scan_run_upd(j)
    \/ scan_capture(j) \/ scan_convert(j)
    \/ scan_fp_get(j) \/ scan_fp_upd(j)
    \/ deliver_check(j)
    \/ deliver_attempt_ok(j) \/ deliver_attempt_fail(j)
    \/ deliver_attempt_unsupported(j)
    \/ scan_ok_get(j) \/ scan_ok_upd(j) \/ scan_cleanup(j)
    \/ scan_df_get(j) \/ scan_df_upd(j)
    \/ scan_webhook(j)
    \/ scan_ex_get(j) \/ scan_ex_upd(j) \/ scan_raise(j)

\* One step of the worker task of job j.
WorkerStep(j) ==
    \/ worker_start(j) \/ worker_finish_ok(j) \/ worker_finish_err(j)

Next ==
    \/ \E j \in ScanJobs :
          \/ \E h \in BOOLEAN : start_scan(j, h)
          \/ WorkerStep(j)
          \/ ScanStep(j)
    \/ \E j \in JobIds :
          \/ cancel_job_read(j)
          \/ cancel_job_write(j)

Spec == Init /\ [][Next]_vars

\* The event loop runs every ready task and finishes every handler it
\* started; the thread pool runs every submitted work item, and every
\* external call returns or times out.
Fairness ==
    \A j \in JobIds :
        /\ WF_vars(WorkerStep(j))
        /\ WF_vars(ScanStep(j))
        /\ WF_vars(cancel_job_write(j))

FairSpec == Spec /\ Fairness

\* deliver called on its own (as the retry-upload route does), for every
\* max_retries from 1 to MaxRetries, with the file present or not.
InitDeliver ==
    /\ jobs = [j \in JobIds |-> NoJob]
    /\ tasks = {}
    /\ taskpc = [j \in JobIds |-> "none"]
    /\ expc = [j \in JobIds |-> "idle"]
    /\ ejob = [j \in JobIds |-> NoJob]
    /\ exerr = [j \in JobIds |-> NoErr]
    /\ hook = [j \in JobIds |-> FALSE]
    /\ artifact = [j \in JobIds |-> "none"]
    /\ \E f \in BOOLEAN : fileExists = [j \in JobIds |-> f /\ j \in ScanJobs]
    /\ cpc = [j \in JobIds |-> "idle"]
    /\ cjob = [j \in JobIds |-> NoJob]
    /\ cancels = 0
    /\ clast = NoCall
    /\ dpc = [j \in JobIds |-> IF j \in ScanJobs THEN "check" ELSE "idle"]
    /\ \E n \in 1..MaxRetries :
         maxr = [j \in JobIds |-> IF j \in ScanJobs THEN n ELSE DefaultMaxRetries]
    /\ target = [j \in JobIds |-> NoTarget]
    /\ attempt = [j \in JobIds |-> 0]
    /\ calls = [j \in JobIds |-> 0]
    /\ sleeps = [j \in JobIds |-> <<>>]
    /\ last_error = [j \in JobIds |-> NoErr]
    /\ errs = [j \in JobIds |-> <<>>]
    /\ dres = [j \in JobIds |-> NoErr]
    /\ batch_scan = [j \in JobIds |-> FALSE]
    /\ source = [j \in JobIds |-> "Flatbed"]
    /\ NoPages
    /\ Elsewhere

NextDeliver ==
    \E j \in JobIds :
        \/ deliver_check(j)
        \/ deliver_attempt_ok(j)
        \/ deliver_attempt_fail(j)
        \/ deliver_attempt_unsupported(j)

SpecDeliver == InitDeliver /\ [][NextDeliver]_vars

\* _execute_task: `await coro()` returns; what the unit of work did in
\* between is left out.
coro_returns(j) ==
    /\ expc[j] = "queued"
    /\ goto(j, "returned")
    /\ UNCHANGED <<jobs, workerVars, ejob, exerr, hook, captureVars, otherVars, published, artifact,
                   fileExists, cancelVars, deliverVars>>

\* _execute_task: `await coro()` raises.
coro_raises(j) ==
    /\ expc[j] = "queued"
    /\ exerr' = [exerr EXCEPT ![j] = Err("scanimage failed", "", 0, "", "device busy")]
    /\ goto(j, "raised")
    /\ UNCHANGED <<jobs, workerVars, ejob, hook, captureVars, otherVars, published, artifact,
                   fileExists, cancelVars, deliverVars>>

\* The worker with several jobs at once: every job id is submitted at
\* most once (ids are fresh uuid4 values), the unit of work is reduced to
\* its outcome, and cancel_job may hit any job at any time.
NextWorker ==
    \E j \in JobIds :
        \/ \E h \in BOOLEAN : start_scan(j, h)
        \/ WorkerStep(j)
        \/ coro_returns(j)
        \/ coro_raises(j)
        \/ cancel_job_read(j)
        \/ cancel_job_write(j)

SpecWorker == Init /\ [][NextWorker]_vars

\* One job just after start_scan, for a profile with any combination of
\* batch_scan and source (the page loop runs in batch mode only for a
\* profile with batch_scan and a source other than the feeder, which
\* list_profiles does not offer at present), without cancellation.
InitCapture ==
    /\ jobs = [j \in JobIds |->
                 IF j \in ScanJobs THEN JobRecord("queued", NoPath, Null) ELSE NoJob]
    /\ tasks = ScanJobs
    /\ taskpc = [j \in JobIds |-> IF j \in ScanJobs THEN "pending" ELSE "none"]
    /\ expc = [j \in JobIds |-> "idle"]
    /\ ejob = [j \in JobIds |-> NoJob]
    /\ exerr = [j \in JobIds |-> NoErr]
    /\ \E h \in BOOLEAN : hook = [j \in JobIds |-> h /\ j \in ScanJobs]
    /\ artifact = [j \in JobIds |-> "none"]
    /\ fileExists = [j \in JobIds |-> FALSE]
    /\ cpc = [j \in JobIds |-> "idle"]
    /\ cjob = [j \in JobIds |-> NoJob]
    /\ cancels = 0
    /\ clast = NoCall
    /\ dpc = [j \in JobIds |-> "idle"]
    /\ maxr = [j \in JobIds |-> DefaultMaxRetries]
    /\ target = [j \in JobIds |-> NoTarget]
    /\ attempt = [j \in JobIds |-> 0]
    /\ calls = [j \in JobIds |-> 0]
    /\ sleeps = [j \in JobIds |-> <<>>]
    /\ last_error = [j \in JobIds |-> NoErr]
    /\ errs = [j \in JobIds |-> <<>>]
    /\ dres = [j \in JobIds |-> NoErr]
    /\ \E p \in AllProfiles :
         /\ batch_scan = [j \in JobIds |-> p.batch_scan /\ j \in ScanJobs]
         /\ source = [j \in JobIds |-> IF j \in ScanJobs THEN p.source ELSE "Flatbed"]
    /\ NoPages
    /\ Elsewhere

NextCapture == \E j \in ScanJobs : WorkerStep(j) \/ ScanStep(j)

SpecCapture == InitCapture /\ [][NextCapture]_vars

\* Every scanimage run returns or times out, and the thread goes on.
FairSpecCapture == SpecCapture /\ \A j \in ScanJobs : WF_vars(ScanStep(j))

\* ------------------------------------------------------------------ claims

Terminal == {"completed", "failed", "cancelled"}

\* C1: once a job's persisted status is completed or failed, no step of the
\* worker, the pipeline, delivery, cleanup or notification (every step but
\* cancel_job's write) changes the status.
C1_TerminalStatusKept ==
    [][\A j \in JobIds :
          (jobs[j].status \in {"completed", "failed"} /\ cpc'[j] = cpc[j])
              => jobs'[j].status = jobs[j].status]_vars

\* C2: once the persisted status is cancelled it stays cancelled.
C2_CancelledStays ==
    [][\A j \in JobIds :
          jobs[j].status = "cancelled" => jobs'[j].status = "cancelled"]_vars

\* C3: a job is created queued and is still queued (its task not started)
\* when start_scan returns; it becomes running when the worker starts the
\* unit of work; from queued it goes only to running or cancelled; it
\* becomes completed or failed only after the worker has started.
C3_QueuedThenRunning ==
    [][\A j \in JobIds :
          /\ (jobs[j] = NoJob /\ jobs'[j] # NoJob)
                => (jobs'[j].status = "queued" /\ taskpc'[j] = "pending")
          /\ (taskpc[j] = "pending" /\ taskpc'[j] = "awaiting")
                => jobs'[j].status = "running"
          /\ jobs[j].status = "queued"
                => jobs'[j].status \in {"queued", "running", "cancelled"}
          /\ (jobs'[j].status \in {"completed", "failed"}
                /\ jobs[j].status # jobs'[j].status)
                => taskpc[j] \notin {"none", "pending"}]_vars

\* C3 witness: a job has gone all the way to completed.
C3_Witness ==
    \E j \in JobIds : jobs[j].status = "completed" /\ taskpc[j] = "done"

\* C4: a cancel_job call returns True exactly when the job it read exists
\* and is queued or running, and then the job's status is cancelled; a
\* call that returns False leaves every job as it was.
C4_CancelContract ==
    [][cancels' # cancels =>
          /\ clast'.ret = (clast'.seen \in {"queued", "running"})
          /\ clast'.ret => jobs'[clast'.job].status = "cancelled"
          /\ ~clast'.ret =>
                /\ clast'.seen \in {"absent", "completed", "failed", "cancelled"}
                /\ jobs' = jobs]_vars

\* C4 witness: a cancel accepted, then a second cancel of the same job
\* rejected because the job is already cancelled.
C4_Witness ==
    /\ cancels = 2
    /\ ~clast.ret
    /\ clast.seen = "cancelled"
    /\ jobs[clast.job].status = "cancelled"

\* C5: every submitted job eventually has a terminal status.
C5_EventuallyTerminal ==
    \A j \in JobIds :
        (taskpc[j] = "pending") ~> (jobs[j].status \in Terminal)

\* C5 witness: a submitted job whose worker task and scan thread have both
\* ended, with a terminal status.
C5_Witness ==
    \E j \in JobIds :
        /\ taskpc[j] = "done"
        /\ expc[j] \in {"returned", "raised"}
        /\ jobs[j].status \in Terminal

\* C6: when the unit of work raised and the worker handled it, the job is
\* failed, its message is "Error: " followed by the error, and the handle
\* is gone.
C6_WorkerRecordsFailure ==
    \A j \in JobIds :
        (taskpc[j] = "done" /\ expc[j] = "raised")
            => /\ jobs[j].status = "failed"
               /\ jobs[j].message = Msg("Error: ", exerr[j])
               /\ jobs[j].message # Null
               /\ exerr[j] # NoErr
               /\ j \notin tasks

\* C6 witness: the unit of work raised and the worker has handled it.
C6_Witness ==
    \E j \in JobIds : taskpc[j] = "done" /\ expc[j] = "raised"

\* C7: a job is never completed while its delivery has not finished.
C7_CompletedAfterDelivery ==
    \A j \in JobIds : jobs[j].status = "completed" => dpc[j] = "done"

\* C8: once cancel_job has cancelled a job's task and returned, no protocol
\* handler is invoked for that job any more.
C8_NoDeliveryAfterCancel ==
    [][\A j \in JobIds :
          (taskpc[j] = "cancelled" /\ cpc[j] = "idle")
              => calls'[j] = calls[j]]_vars

\* C9: deliver invokes the handler at most max_retries times, returns at
\* the first success without a further attempt, and after max_retries
\* consecutive failures (and only then) raises the aggregate error that
\* names the target and carries the last underlying error.
C9_RetryContract ==
    \A j \in JobIds :
        /\ calls[j] <= maxr[j]
        /\ target[j].type \in SupportedTypes =>
              /\ calls[j] - Len(errs[j]) \in {0, 1}
              /\ calls[j] > Len(errs[j]) => (dpc[j] = "done" /\ dres[j] = NoErr)
              /\ Len(errs[j]) = maxr[j] =>
                    /\ dpc[j] = "done"
                    /\ dres[j] = Err("delivery failed", target[j].name, maxr[j],
                                     "handler", errs[j][maxr[j]])
              /\ (dpc[j] = "done" /\ dres[j].kind = "delivery failed")
                    => Len(errs[j]) = maxr[j]

\* C9 witness: three attempts failed, the first and the last with
\* different errors, and deliver has raised.
C9_Witness ==
    \E j \in JobIds :
        /\ maxr[j] = 3
        /\ Len(errs[j]) = 3
        /\ errs[j][1] # errs[j][3]
        /\ dpc[j] = "done"

C11_UnusableTargetRaises ==
    \A j \in JobIds :
        (dpc[j] \in {"attempt", "done"}
            /\ (~target[j].present \/ ~target[j].enabled))
            => /\ dpc[j] = "done"
               /\ dres[j] = Err("target not found or disabled", TargetId, 0, "", "")
               /\ calls[j] = 0
               /\ sleeps[j] = <<>>
               /\ errs[j] = <<>>

\* C11 witness: deliver with max_retries above 1 has raised on a target
\* that exists and is disabled, the file being there.
C11_Witness ==
    \E j \in JobIds :
        /\ dpc[j] = "done"
        /\ target[j].present /\ ~target[j].enabled
        /\ maxr[j] > 1
        /\ fileExists[j]
        /\ dres[j].kind = "target not found or disabled"

\* C13: deliver to an enabled target of an unsupported type fails at once:
\* a single attempt, after which deliver has raised, and no backoff sleep.
C13_UnsupportedFailsAtOnce ==
    \A j \in JobIds :
        (target[j].present /\ target[j].enabled
            /\ target[j].type \notin SupportedTypes)
            => /\ Len(errs[j]) <= 1
               /\ sleeps[j] = <<>>
               /\ Len(errs[j]) = 1 => dpc[j] = "done"

C14_DeliveryFailureKeepsCompleted ==
    \A j \in JobIds :
        (dpc[j] = "done" /\ dres[j].kind = "delivery failed")
            => /\ jobs[j].status # "failed"
               /\ fileExists[j]
               /\ dres[j].target = target[j].name
               /\ dres[j].cause = errs[j][Len(errs[j])]
               /\ (taskpc[j] = "done" /\ jobs[j].status # "cancelled")
                     => /\ jobs[j].status = "completed"
                        /\ jobs[j].message = Msg("Upload failed: ", dres[j])
                        /\ jobs[j].message # Null

\* C14 witness: three handler calls failed and the job has run to its end.
C14_Witness ==
    \E j \in JobIds :
        /\ calls[j] = 3
        /\ dres[j].kind = "delivery failed"
        /\ taskpc[j] = "done"
        /\ expc[j] = "returned"
        /\ jobs[j].status = "completed"

\* C16: a notification endpoint does not change the outcome.  Without one,
\* a job whose delivery has ended (returned or raised) is never failed; the
\* same holds with one, so no failure while building or sending the
\* notification sets the job to failed.
C16_NotificationKeepsOutcome ==
    \A j \in JobIds : dpc[j] = "done" => jobs[j].status # "failed"

\* C15: a job without notification endpoint and with a single-page profile
\* whose page capture, conversion and delivery met no failure (the target
\* is enabled, of a supported type, and no handler call failed) has, once
\* its thread and its worker task have ended, run scanimage once, the
\* converter once and the handler once; unless it was cancelled it is
\* completed with a null message; and the local file is gone.
C15_SinglePageScenario ==
    \A j \in JobIds :
        (/\ ~hook[j] /\ ~batch_scan[j]
         /\ expc[j] = "returned" /\ taskpc[j] = "done"
         /\ target[j].present /\ target[j].enabled
         /\ target[j].type \in SupportedTypes
         /\ errs[j] = <<>>)
            => /\ captures[j] = 1
               /\ scanned_files[j] = <<1>>
               /\ converts[j] = 1
               /\ calls[j] = 1
               /\ dres[j] = NoErr
               /\ ~fileExists[j]
               /\ jobs[j].status # "cancelled"
                     => (jobs[j].status = "completed" /\ jobs[j].message = Null)

\* C15 witness: such a job at its end, completed.
C15_Witness ==
    \E j \in JobIds :
        /\ ~hook[j] /\ ~batch_scan[j]
        /\ expc[j] = "returned" /\ taskpc[j] = "done"
        /\ target[j].enabled /\ target[j].type \in SupportedTypes
        /\ errs[j] = <<>>
        /\ calls[j] = 1
        /\ jobs[j].status = "completed"

\* The manual loop of job j ran in batch mode and is over, its last
\* scanimage run having exited non-zero with an empty-feeder message after
\* at least one page was captured successfully (N = page_num - 1).
FeederEmptyAfterPages(j) ==
    /\ batch_scan[j] /\ source[j] # "ADF"
    /\ capture_end[j] # ""
    /\ result[j].started /\ ~result[j].timeout /\ result[j].rc # 0
    /\ result[j].msg \in adf_empty_indicators
    /\ page_num[j] >= 2

C18_LoopBounded ==
    /\ [](\A j \in JobIds :
            ~(batch_scan[j] /\ source[j] = "ADF")
                => (captures[j] <= 100 /\ Len(scanned_files[j]) <= 100))
    /\ \A j \in JobIds : (expc[j] = "capture") ~> (capture_end[j] # "")

\* C18 witness: the loop was ended by the page limit after 100 runs that
\* each gave a page.
C18_Witness ==
    \E j \in JobIds :
        /\ batch_scan[j] /\ source[j] # "ADF"
        /\ captures[j] = 100
        /\ Len(scanned_files[j]) = 100
        /\ page_ok(result[j])
        /\ capture_end[j] = "done"

\* The last scanimage run of job j's manual loop exited non-zero with a
\* message that matches no empty-feeder indicator.
DeviceError(j) ==
    /\ ~(batch_scan[j] /\ source[j] = "ADF")
    /\ result[j].started /\ ~result[j].timeout /\ result[j].rc # 0
    /\ result[j].msg \notin adf_empty_indicators

\* C19: a capture error that matches no empty-feeder indicator aborts the
\* job at that page, however many pages were captured before: no further
\* scanimage run, no conversion and no delivery attempt is made, the
\* pipeline records failed with the scanimage error, which carries the
\* device message, and the job ends failed with "Error: " and that error.
C19_DeviceErrorFailsJob ==
    \A j \in JobIds :
        DeviceError(j)
            => /\ capture_end[j] = "raised"
               /\ captures[j] = page_num[j]
               /\ exerr[j] = Err("scanimage failed", "", 0, "", result[j].msg)
               /\ converts[j] = 0
               /\ dpc[j] = "idle" /\ calls[j] = 0
               /\ jobs[j].status \in {"running", "failed"}
               /\ expc[j] = "raised"
                     => /\ jobs[j].status = "failed"
                        /\ jobs[j].message \in
                              {Msg("", exerr[j]), Msg("Error: ", exerr[j])}
               /\ taskpc[j] = "done"
                     => /\ jobs[j].status = "failed"
                        /\ jobs[j].message = Msg("Error: ", exerr[j])

\* C19 witness: in batch mode two pages were captured, the third run
\* failed with a device error, and the job has ended failed.
C19_Witness ==
    \E j \in JobIds :
        /\ DeviceError(j)
        /\ batch_scan[j]
        /\ scanned_files[j] = <<1, 2>>
        /\ taskpc[j] = "done"
        /\ jobs[j].status = "failed"

\* The native --batch run of job j (a profile with batch_scan and source
\* ADF) is over and was not a success: scanimage could not be started,
\* timed out, exited non-zero, or left no page file.
NativeBatchFailed(j) ==
    /\ batch_scan[j] /\ source[j] = "ADF"
    /\ captures[j] >= 1
    /\ ~(/\ result[j].started /\ ~result[j].timeout
         /\ result[j].rc = 0 /\ result[j].out > 0)

\* C20: when the native batch facility is unavailable or fails, the
\* pipeline goes on with the manual loop instead of failing the job: the
\* capture stage does not raise.
C20_NativeBatchFallsBack ==
    \A j \in JobIds : NativeBatchFailed(j) => capture_end[j] # "raised"

\* C21: no conversion failure fails the job: once the converter has run,
\* the pipeline has an artifact (the converted file or the raw first page)
\* and the conversion has raised nothing.
C21_ConversionNeverFails ==
    \A j \in JobIds :
        converts[j] >= 1
            => /\ artifact[j] \in {"converted", "raw"}
               /\ exerr[j].kind # "convert timeout"

\* The last scanimage run of job j's manual loop timed out.
PageTimeout(j) ==
    /\ ~(batch_scan[j] /\ source[j] = "ADF")
    /\ result[j].started /\ result[j].timeout

EmptyFile(j) ==
    /\ ~(batch_scan[j] /\ source[j] = "ADF")
    /\ result[j].started /\ ~result[j].timeout
    /\ result[j].rc = 0 /\ result[j].out = 0

\* C29: a run that reports success with a zero-byte file is fatal on the
\* first page and when batch mode is off ("Scanner returned empty file",
\* no conversion, no delivery, job failed); on a later page of a batch it
\* ends the loop normally, the empty file is not kept and the pages
\* captured before are.
C29_EmptyFile ==
    \A j \in JobIds :
        EmptyFile(j)
            => IF batch_scan[j] /\ page_num[j] > 1
               THEN /\ capture_end[j] = "done"
                    /\ scanned_files[j] = Pages(page_num[j] - 1)
                    /\ exerr[j].kind \notin CaptureErrors
               ELSE /\ capture_end[j] = "raised"
                    /\ scanned_files[j] = <<>>
                    /\ exerr[j] = Err("Scanner returned empty file", "", 0, "", "")
                    /\ converts[j] = 0
                    /\ dpc[j] = "idle" /\ calls[j] = 0
                    /\ jobs[j].status \in {"running", "failed"}
                    /\ taskpc[j] = "done"
                          => /\ jobs[j].status = "failed"
                             /\ jobs[j].message = Msg("Error: ", exerr[j])

\* C29 witness: the first run of a batch left a zero-byte file and the
\* job has ended failed.
C29_Witness ==
    \E j \in JobIds :
        /\ EmptyFile(j)
        /\ batch_scan[j]
        /\ page_num[j] = 1
        /\ taskpc[j] = "done"
        /\ jobs[j].status = "failed"

\* The first scanimage run of job j's manual batch loop exited non-zero
\* with an empty-feeder message and left no non-empty file.
FeederEmptyAtOnce(j) ==
    /\ batch_scan[j] /\ source[j] # "ADF"
    /\ page_num[j] = 1
    /\ result[j].started /\ ~result[j].timeout /\ result[j].rc # 0
    /\ result[j].msg \in adf_empty_indicators
    /\ result[j].out = 0

\* C30: in that case no page is kept, no artifact is produced, no
\* conversion and no delivery is attempted, the capture stage raises "No
\* pages were scanned successfully", the job is never completed and it
\* ends failed.
C30_NoPagesFailsJob ==
    \A j \in JobIds :
        FeederEmptyAtOnce(j)
            => /\ scanned_files[j] = <<>>
               /\ capture_end[j] = "raised"
               /\ exerr[j] = Err("No pages were scanned successfully", "", 0, "", "")
               /\ artifact[j] = "none" /\ ~fileExists[j]
               /\ converts[j] = 0
               /\ dpc[j] = "idle" /\ calls[j] = 0
               /\ jobs[j].status \in {"running", "failed"}
               /\ jobs[j].file_path = NoPath
               /\ taskpc[j] = "done"
                     => /\ jobs[j].status = "failed"
                        /\ jobs[j].message = Msg("Error: ", exerr[j])

\* C30 witness: such a job has ended failed.
C30_Witness ==
    \E j \in JobIds :
        /\ FeederEmptyAtOnce(j)
        /\ captures[j] = 1
        /\ taskpc[j] = "done"
        /\ jobs[j].status = "failed"

\* C23: a recorded file_path is never changed or reset to null by a later
\* write, and file_path is never set on a job whose status is terminal.
C23_FilePathWrittenOnce ==
    [][\A j \in JobIds :
          /\ jobs[j].file_path # NoPath
                => jobs'[j].file_path = jobs[j].file_path
          /\ (jobs[j].file_path = NoPath /\ jobs'[j].file_path # NoPath)
                => jobs[j].status \notin Terminal]_vars

\* C27: the handle map holds a handle for a job exactly while the job's
\* worker task is pending or in flight; a job whose task has finished
\* (the unit of work returned or raised) or was cancelled, or that was
\* never submitted, has no entry; when no submitted job is pending or in
\* flight the map is empty.  (The map is keyed by job id, so it holds at
\* most one handle per id.)
C27_HandleMap ==
    /\ \A j \in JobIds :
          /\ j \in tasks <=> taskpc[j] \in {"pending", "awaiting"}
          /\ taskpc[j] \in {"none", "done", "cancelled"} => j \notin tasks
    /\ (\A j \in JobIds : taskpc[j] \in {"done", "cancelled"}) => tasks = {}

\* C27 witness: of two submitted jobs one has finished with an error and
\* the other was cancelled; both have ended.
C27_Witness ==
    /\ taskpc["j1"] = "done" /\ expc["j1"] = "raised"
    /\ taskpc["j2"] = "cancelled"
    /\ tasks = {}

\* C28: every change of a job's persisted status is followed by a
\* job-update event that carries the new status, whichever thread wrote.
C28_EveryStatusChangePublished ==
    [][\A j \in JobIds :
          jobs'[j].status # jobs[j].status
              => published'[j] = jobs'[j].status]_vars


\* ---------------------------------------------------------------------
\* _parse_smb_connection called on its own, on every connection string of
\* at most MaxConnLen tokens and on the documented examples.
\* ---------------------------------------------------------------------
InitSmb ==
    /\ Idle
    /\ connection \in Connections
    /\ parsed = NoParse
    /\ StoreIdle
    /\ HealthIdle

parse_smb ==
    /\ parsed = NoParse
    /\ parsed' = _parse_smb_connection(connection)
    /\ UNCHANGED <<jobs, published, workerVars, execVars, cancelVars,
                   deliverVars, hook, captureVars, connection, storeVars,
                   healthVars>>

NextSmb == parse_smb

SpecSmb == InitSmb /\ [][NextSmb]_vars

\* Two results are the same: both rejections, or the same triple.
SameParse(r1, r2) == (r1.ok = r2.ok) /\ (r1.ok => r1 = r2)

\* The string with every separator written as t.
WrittenWith(c, t) == [i \in 1..Len(c) |-> IF c[i] \in Separators THEN t ELSE c[i]]

\* The string starts, after any number of separators, with a name part,
\* one separator and a second name part.
TwoLeadingComponents(c) ==
    \E a \in 1..Len(c) : \E b \in a..Len(c) :
        /\ \A i \in 1..(a - 1) : c[i] \in Separators
        /\ \A i \in a..b : c[i] \in Names
        /\ b + 2 <= Len(c)
        /\ c[b + 1] \in Separators
        /\ c[b + 2] \in Names

\* C25: //host/share/sub, \\host\share\sub and host/share/sub all parse to
\* (host, share, sub); the result does not change when the separators are
\* written the other way or when leading separators are added or removed;
\* a string without two non-empty leading components is rejected.
C25_SmbNormalised ==
    parsed # NoParse =>
        /\ connection \in Examples
              => parsed = [ok |-> TRUE, server |-> <<"host">>,
                           share |-> <<"share">>, path |-> <<"sub">>]
        /\ \A t \in Separators :
              /\ SameParse(_parse_smb_connection(WrittenWith(connection, t)), parsed)
              /\ SameParse(_parse_smb_connection(<<t>> \o connection), parsed)
              /\ (connection # <<>> /\ Head(connection) = t)
                    => SameParse(_parse_smb_connection(Tail(connection)), parsed)
        /\ ~TwoLeadingComponents(connection) => ~parsed.ok
        /\ ~parsed.ok => parsed.error \in
              {"Connection string is empty", "Invalid SMB path format",
               "Server name/IP is required", "Share name is required"}

C25_Witness ==
    /\ connection = <<"\\", "\\", "host", "\\", "share", "\\", "sub">>
    /\ parsed = [ok |-> TRUE, server |-> <<"host">>, share |-> <<"share">>,
                 path |-> <<"sub">>]


\* ---------------------------------------------------------------------
\* The Job Store on its own: one job is created, then callers update it
\* with any field values and read it back.
\* ---------------------------------------------------------------------
InitStore ==
    /\ Idle
    /\ SmbIdle
    /\ HealthIdle
    /\ row = JobRecord("queued", NoPath, Null)
    /\ written = NoObject
    /\ fetched = NoObject

\* JobManager.update_job(job) -> JobRepository.update(job)
store_update(job) ==
    /\ row' = update_row(job)
    /\ written' = job
    /\ fetched' = NoObject
    /\ UNCHANGED <<jobs, published, workerVars, execVars, cancelVars,
                   deliverVars, hook, captureVars, smbVars, healthVars>>

\* JobManager.get_job(job.id) -> JobRepository.get(job.id)
store_get ==
    /\ fetched' = get_row(row)
    /\ UNCHANGED <<jobs, published, workerVars, execVars, cancelVars,
                   deliverVars, hook, captureVars, smbVars, healthVars,
                   row, written>>

NextStore ==
    \/ \E job \in JobObjects : store_update(job)
    \/ store_get

SpecStore == InitStore /\ [][NextStore]_vars

\* C24: after update_job(job), get_job(job.id) returns a record whose
\* status, file_path, message and thumbnail_path are the values written.
C24_FieldsRoundTrip ==
    (written # NoObject /\ fetched # NoObject) =>
        /\ fetched.status = written.status
        /\ fetched.file_path = written.file_path
        /\ fetched.message = written.message
        /\ fetched.thumbnail_path = written.thumbnail_path


\* ---------------------------------------------------------------------
\* The health monitor on its own.  The monitor task runs on the event
\* loop and is suspended only at its awaits: the thread-pool call of
\* list_devices and the interval sleep.
\* ---------------------------------------------------------------------
appVars == <<jobs, published, workerVars, execVars, cancelVars, deliverVars,
             hook, captureVars, smbVars, storeVars>>

\* start(): is_running = True and the _monitor_loop task is created.
health_start ==
    /\ ~is_running
    /\ is_running' = TRUE
    /\ hpc' = "tick"
    /\ UNCHANGED <<appVars, scanner_status, registered_devices, tick_failed,
                   status_before>>

\* stop(): is_running = False and the task is cancelled at its await.
health_stop ==
    /\ is_running
    /\ is_running' = FALSE
    /\ hpc' = "stopped"
    /\ UNCHANGED <<appVars, scanner_status, registered_devices, tick_failed,
                   status_before>>

\* _check_scanners: DeviceRepository() or list_devices raises; the
\* exception is logged by _check_scanners and the loop sleeps.
tick_repo_fails ==
    /\ is_running /\ hpc = "tick"
    /\ hpc' = "sleep"
    /\ tick_failed' = TRUE
    /\ status_before' = scanner_status
    /\ UNCHANGED <<appVars, is_running, scanner_status, registered_devices>>

\* _check_scanners: no registered scanners, return.
tick_no_devices ==
    /\ is_running /\ hpc = "tick"
    /\ hpc' = "sleep"
    /\ tick_failed' = FALSE
    /\ status_before' = scanner_status
    /\ registered_devices' = <<>>
    /\ UNCHANGED <<appVars, is_running, scanner_status>>

\* _check_scanners: registered scanners found, await the discovery.
tick_begin ==
    /\ is_running /\ hpc = "tick"
    /\ \E devs \in DeviceLists : registered_devices' = devs
    /\ hpc' = "discover"
    /\ status_before' = scanner_status
    /\ UNCHANGED <<appVars, is_running, scanner_status, tick_failed>>

\* _check_scanners: scanner_manager.list_devices raises in its thread.
tick_discover_fails ==
    /\ is_running /\ hpc = "discover"
    /\ hpc' = "sleep"
    /\ tick_failed' = TRUE
    /\ UNCHANGED <<appVars, is_running, scanner_status, registered_devices,
                   status_before>>

\* _check_scanners: the discovery returned; the for loop over the
\* registered devices runs without an await, to its end or to the first
\* update_last_seen that raises.
tick_check ==
    /\ is_running /\ hpc = "discover"
    /\ \E available_uris \in SUBSET Scanners, failing \in SUBSET Scanners :
         LET r == check_devices(scanner_status, registered_devices,
                                available_uris, failing)
         IN  /\ scanner_status' = r.status
             /\ tick_failed' = r.raised
    /\ hpc' = "sleep"
    /\ UNCHANGED <<appVars, is_running, registered_devices, status_before>>

\* asyncio.sleep(check_interval) returns and the loop tests is_running.
tick_sleep_done ==
    /\ is_running /\ hpc = "sleep"
    /\ hpc' = "tick"
    /\ UNCHANGED <<appVars, is_running, scanner_status, registered_devices,
                   tick_failed, status_before>>

\* One _check_scanners call begins.
TickStart == tick_repo_fails \/ tick_no_devices \/ tick_begin

MonitorStep ==
    \/ TickStart
    \/ tick_discover_fails
    \/ tick_check
    \/ tick_sleep_done

InitHealth == Idle /\ Elsewhere

NextHealth == health_start \/ health_stop \/ MonitorStep

SpecHealth == InitHealth /\ [][NextHealth]_vars

\* The sleep ends and the event loop runs the task.
FairSpecHealth == SpecHealth /\ WF_vars(MonitorStep)

\* A tick has failed and the loop is in the sleep that follows it.
FailedTick == hpc = "sleep" /\ tick_failed

\* C26 (the status cache): after a failed tick the status cache is as it
\* was before the tick.
C26_FailedTickKeepsCache == FailedTick => scanner_status = status_before

\* C26 (the loop): after a failed tick the loop comes back to
\* _check_scanners and executes it, unless the monitor is stopped.
C26_FailedTickFollowed ==
    FailedTick ~>
        (~is_running \/
           (hpc = "tick" /\ <>(~is_running \/ hpc \in {"discover", "sleep"})))

====
